---------------------------- MODULE Spec2Model ----------------------------
(***************************************************************************)
(* A model of the two-pass SIC/XE assembler of src/SicXEAssem.py.          *)
(*                                                                         *)
(* Python strings are modelled as sequences of one-character strings, so   *)
(* that indexing (s[0], s[len-1]), slicing (s[1:], s[:len-2]), hex(), int() *)
(* and zfill() are computed as the interpreter computes them.  A list of   *)
(* columns is a sequence of such strings.  The source uses Python 2        *)
(* idioms (print(x), with a trailing comma); '/' on integers is therefore  *)
(* floor division.                                                         *)
(***************************************************************************)
EXTENDS Integers, Sequences, FiniteSets, TLC

VARIABLES
    src,        \* the input file: one list of three columns per line, as FindColumn returns them
    pc,         \* where main() is: "pass1", "pass2", "done" or "crashed" (uncaught exception)
    line,       \* 1-based index of the next line FirstPass reads
    parseinfo,  \* FirstPass's parseinfo / SecondPass's infolist: the rows, in program order
    LOCCTR,     \* the global location counter
    SYMTAB,     \* the global symbol table: label -> address string
    lengths,    \* history: for each row, the amount FindOffset added to LOCCTR (0 for START, BASE, comments)
    elemIx,     \* 1-based index of the next row SecondPass processes
    basevar,    \* SecondPass's local basevar
    target,     \* the bytes written to the .exe file, in order
    written,    \* history: for each row SecondPass has finished or skipped, the number of bytes written for it
    printed     \* the error lines printed to the console, in order

vars == <<src, pc, line, parseinfo, LOCCTR, SYMTAB, lengths, elemIx, basevar, target, written, printed>>

-----------------------------------------------------------------------------
(* Python built-ins on strings and integers                                *)

LowerHex == <<"0","1","2","3","4","5","6","7","8","9","a","b","c","d","e","f">>
UpperHex == <<"0","1","2","3","4","5","6","7","8","9","A","B","C","D","E","F">>

\* None, as returned by dict.get for a missing key
None == <<"NoneType">>

\* str(v) for v a string or None
PyStr(v) == IF v = None THEN <<"N", "o", "n", "e">> ELSE v

IsHexChar(c) == \E v \in 0..15 : LowerHex[v + 1] = c \/ UpperHex[v + 1] = c
HexCharVal(c) == CHOOSE v \in 0..15 : LowerHex[v + 1] = c \/ UpperHex[v + 1] = c
IsDecChar(c) == \E v \in 0..9 : LowerHex[v + 1] = c
IsBinChar(c) == c = "0" \/ c = "1"

\* s[n:] and s[:n] for 0 <= n
DropFirst(s, n) == IF n >= Len(s) THEN <<>> ELSE SubSeq(s, n + 1, Len(s))
TakeFirst(s, n) == IF n >= Len(s) THEN s ELSE SubSeq(s, 1, n)

\* s[:len(s) - k]: a negative stop counts from the end
DropLast(s, k) ==
    LET stop == Len(s) - k
    IN  IF stop >= 0 THEN TakeFirst(s, stop)
        ELSE IF Len(s) + stop >= 0 THEN TakeFirst(s, Len(s) + stop) ELSE <<>>

\* whether int(s, base) succeeds: the strings the assembler builds carry no
\* sign, prefix, underscore or surrounding blank, so only digit strings parse
CanInt16(s) == s /= None /\ Len(s) > 0 /\ \A k \in 1..Len(s) : IsHexChar(s[k])
CanInt10(s) == s /= None /\ Len(s) > 0 /\ \A k \in 1..Len(s) : IsDecChar(s[k])

RECURSIVE Int16(_)
Int16(s) == IF s = <<>> THEN 0 ELSE 16 * Int16(SubSeq(s, 1, Len(s) - 1)) + HexCharVal(s[Len(s)])

RECURSIVE Int10(_)
Int10(s) == IF s = <<>> THEN 0 ELSE 10 * Int10(SubSeq(s, 1, Len(s) - 1)) + HexCharVal(s[Len(s)])

RECURSIVE Int2(_)
Int2(s) == IF s = <<>> THEN 0 ELSE 2 * Int2(SubSeq(s, 1, Len(s) - 1)) + HexCharVal(s[Len(s)])

RECURSIVE Digits(_, _)
Digits(n, base) ==
    IF n < base THEN <<LowerHex[n + 1]>>
    ELSE Append(Digits(n \div base, base), LowerHex[(n % base) + 1])

\* hex(n), bin(n) and str(n), sign and prefix included
PyHex(n) == IF n < 0 THEN <<"-", "0", "x">> \o Digits(-n, 16) ELSE <<"0", "x">> \o Digits(n, 16)
PyBin(n) == IF n < 0 THEN <<"-", "0", "b">> \o Digits(-n, 2) ELSE <<"0", "b">> \o Digits(n, 2)
PyStrInt(n) == IF n < 0 THEN <<"-">> \o Digits(-n, 10) ELSE Digits(n, 10)

\* hex(n)[2:], the idiom the assembler uses everywhere
Hex2(n) == DropFirst(PyHex(n), 2)

\* n characters '0'
Zeros(n) == [k \in 1..n |-> "0"]

\* s.zfill(width): a leading sign stays in front of the padding
Zfill(s, width) ==
    IF Len(s) >= width THEN s
    ELSE IF Len(s) > 0 /\ (s[1] = "-" \/ s[1] = "+")
         THEN <<s[1]>> \o Zeros(width - Len(s)) \o DropFirst(s, 1)
         ELSE Zeros(width - Len(s)) \o s

\* ord(c) for the characters that occur in C'...' literals
OrdChars == <<"A","B","C","D","E","F","G","H","I","J","K","L","M","N","O","P","Q","R","S","T","U","V","W","X","Y","Z">>
Ord(c) == 64 + (CHOOSE k \in 1..Len(OrdChars) : OrdChars[k] = c)

\* d.get(key)
Get(d, key) == IF key \in DOMAIN d THEN d[key] ELSE None

-----------------------------------------------------------------------------
(* The tables of lines 19-43                                               *)

OPTAB ==
    <<"A", "D", "D">> :> <<"1", "8">> @@ <<"A", "D", "D", "F">> :> <<"5", "8">> @@ <<"A", "D", "D", "R">> :> <<"9", "0">> @@
    <<"A", "N", "D">> :> <<"4", "0">> @@ <<"C", "L", "E", "A", "R">> :> <<"B", "4">> @@ <<"C", "O", "M", "P">> :> <<"2", "8">> @@
    <<"C", "O", "M", "P", "F">> :> <<"8", "8">> @@ <<"C", "O", "M", "P", "R">> :> <<"A", "0">> @@ <<"D", "I", "V">> :> <<"2", "4">> @@
    <<"D", "I", "V", "F">> :> <<"6", "4">> @@ <<"D", "I", "V", "R">> :> <<"9", "C">> @@ <<"F", "I", "X">> :> <<"C", "4">> @@
    <<"F", "L", "O", "A", "T">> :> <<"C", "0">> @@ <<"H", "I", "O">> :> <<"F", "4">> @@ <<"J">> :> <<"3", "C">> @@
    <<"J", "E", "Q">> :> <<"3", "0">> @@ <<"J", "G", "T">> :> <<"3", "4">> @@ <<"J", "L", "T">> :> <<"3", "8">> @@
    <<"J", "S", "U", "B">> :> <<"4", "8">> @@ <<"L", "D", "A">> :> <<"0", "0">> @@ <<"L", "D", "B">> :> <<"6", "8">> @@
    <<"L", "D", "C", "H">> :> <<"5", "0">> @@ <<"L", "D", "F">> :> <<"7", "0">> @@ <<"L", "D", "L">> :> <<"0", "8">> @@
    <<"L", "D", "S">> :> <<"6", "C">> @@ <<"L", "D", "T">> :> <<"7", "4">> @@ <<"L", "D", "X">> :> <<"0", "4">> @@
    <<"L", "P", "S">> :> <<"D", "0">> @@ <<"M", "U", "L">> :> <<"2", "0">> @@ <<"M", "U", "L", "F">> :> <<"6", "0">> @@
    <<"M", "U", "L", "R">> :> <<"9", "8">> @@ <<"N", "O", "R", "M">> :> <<"C", "8">> @@ <<"O", "R">> :> <<"4", "4">> @@
    <<"R", "D">> :> <<"D", "8">> @@ <<"R", "M", "O">> :> <<"A", "C">> @@ <<"R", "S", "U", "B">> :> <<"4", "C">> @@
    <<"S", "H", "I", "F", "T", "L">> :> <<"A", "4">> @@ <<"S", "H", "I", "F", "T", "R">> :> <<"A", "8">> @@ <<"S", "I", "O">> :> <<"F", "0">> @@
    <<"S", "S", "K">> :> <<"E", "C">> @@ <<"S", "T", "A">> :> <<"0", "C">> @@ <<"S", "T", "B">> :> <<"7", "8">> @@
    <<"S", "T", "C", "H">> :> <<"5", "4">> @@ <<"S", "T", "F">> :> <<"8", "0">> @@ <<"S", "T", "I">> :> <<"D", "4">> @@
    <<"S", "T", "L">> :> <<"1", "4">> @@ <<"S", "T", "S">> :> <<"7", "C">> @@ <<"S", "T", "S", "W">> :> <<"E", "8">> @@
    <<"S", "T", "T">> :> <<"8", "4">> @@ <<"S", "T", "X">> :> <<"1", "0">> @@ <<"S", "U", "B">> :> <<"1", "C">> @@
    <<"S", "U", "B", "F">> :> <<"5", "C">> @@ <<"S", "U", "B", "R">> :> <<"9", "4">> @@ <<"S", "V", "C">> :> <<"B", "0">> @@
    <<"T", "D">> :> <<"E", "0">> @@ <<"T", "I", "O">> :> <<"F", "8">> @@ <<"T", "I", "X">> :> <<"2", "C">> @@
    <<"T", "I", "X", "R">> :> <<"B", "8">> @@ <<"W", "D">> :> <<"D", "C">>

FORM1 ==
    <<"F", "I", "X">> :> <<"C", "4">> @@ <<"F", "L", "O", "A", "T">> :> <<"C", "0">> @@ <<"H", "I", "O">> :> <<"F", "4">> @@
    <<"N", "O", "R", "M">> :> <<"C", "8">> @@ <<"S", "I", "O">> :> <<"F", "0">> @@ <<"T", "I", "O">> :> <<"F", "8">>

FORM2 ==
    <<"A", "D", "D", "R">> :> <<"9", "0">> @@ <<"C", "L", "E", "A", "R">> :> <<"B", "4">> @@ <<"C", "O", "M", "P", "R">> :> <<"A", "0">> @@
    <<"D", "I", "V", "R">> :> <<"9", "C">> @@ <<"M", "U", "L", "R">> :> <<"9", "8">> @@ <<"R", "M", "O">> :> <<"A", "C">> @@
    <<"S", "H", "I", "F", "T", "L">> :> <<"A", "4">> @@ <<"S", "H", "I", "F", "T", "R">> :> <<"A", "8">> @@ <<"S", "U", "B", "R">> :> <<"9", "4">> @@
    <<"S", "V", "C">> :> <<"B", "0">> @@ <<"T", "I", "X", "R">> :> <<"B", "8">>

REGS ==
    <<"A">> :> <<"0">> @@ <<"X">> :> <<"1">> @@ <<"L">> :> <<"2">> @@
    <<"B">> :> <<"3">> @@ <<"S">> :> <<"4">> @@ <<"T">> :> <<"5">> @@
    <<"F">> :> <<"6">> @@ <<"P", "C">> :> <<"8">> @@ <<"S", "W">> :> <<"9">>


-----------------------------------------------------------------------------
(* Exceptions: a function that can raise returns Raised; a string result   *)
(* is a sequence of characters and never equals it.                        *)

Raised == <<"Traceback">>

NoLabel == <<" ", " ", " ", " ">>
NoOffset == <<" ", " ", " ", " ", " ">>

-----------------------------------------------------------------------------
(* Pass 1                                                                  *)

\* "counter / 2": floor division of two ints (Python 2)
PyDiv(a, b) == a \div b

\* whether the statement of FindOffset that advances LOCCTR raises: an index
\* into an empty string, or int() of an operand that is no decimal number
OffsetRaises(columns) ==
    LET code == columns[2]
        operand == columns[3]
    IN  IF code \in DOMAIN FORM2 \/ code \in DOMAIN FORM1 THEN FALSE
        ELSE IF Len(code) = 0 THEN TRUE
        ELSE IF code[1] = "+" THEN FALSE
        ELSE IF code = <<"R", "E", "S", "W">> \/ code = <<"R", "E", "S", "B">> THEN ~CanInt10(operand)
        ELSE IF code = <<"W", "O", "R", "D">> THEN FALSE
        ELSE IF code = <<"B", "Y", "T", "E">> THEN Len(operand) = 0
        ELSE FALSE

\* FindOffset's addition to LOCCTR for the [label, operation, operand] list
\* "columns" (START, which assigns LOCCTR, is apart)
OffsetStep(columns) ==
    LET code == columns[2]
        operand == columns[3]
    IN  IF code \in DOMAIN FORM2 THEN 2
        ELSE IF code \in DOMAIN FORM1 THEN 1
        ELSE IF code[1] = "+" THEN 4
        ELSE IF code = <<"R", "E", "S", "W">> THEN Int10(operand) * 3
        ELSE IF code = <<"R", "E", "S", "B">> THEN Int10(operand)
        ELSE IF code = <<"W", "O", "R", "D">> THEN 3
        ELSE IF code = <<"B", "Y", "T", "E">> THEN
            (IF operand[1] = "C" THEN Len(operand) - 3
             ELSE IF operand[1] = "X" THEN PyDiv(Len(operand) - 3, 2)
             ELSE 1)
        ELSE 3

\* FindOffset(columns): the row with the offset inserted at index 0, the new
\* LOCCTR and the amount added
FindOffset(columns, locctr) ==
    IF columns[2] = <<"B", "A", "S", "E">> \/ columns[1][1] = "."
    THEN [raised |-> FALSE, row |-> <<NoOffset>> \o columns, LOCCTR |-> locctr, added |-> 0]
    ELSE LET row == <<Zfill(Hex2(locctr), 5)>> \o columns
         IN  IF columns[2] = <<"S", "T", "A", "R", "T">>
             THEN IF CanInt16(columns[3])
                  THEN [raised |-> FALSE, row |-> row, LOCCTR |-> Int16(columns[3]), added |-> 0]
                  ELSE [raised |-> TRUE, row |-> row, LOCCTR |-> locctr, added |-> 0]
             ELSE IF OffsetRaises(columns)
                  THEN [raised |-> TRUE, row |-> row, LOCCTR |-> locctr, added |-> 0]
                  ELSE [raised |-> FALSE, row |-> row,
                        LOCCTR |-> locctr + OffsetStep(columns), added |-> OffsetStep(columns)]

\* FillSymTab(columns) on a row that carries its offset: the new SYMTAB
FillSymTab(row, symtab) ==
    IF row[2] = NoLabel THEN symtab
    ELSE IF row[2] = <<".">> THEN symtab
    ELSE (row[2] :> row[1]) @@ symtab

-----------------------------------------------------------------------------
(* Pass 2: the encoders.  Each returns the string it builds, or Raised.    *)

NIbits(operand) ==
    IF operand[1] = "#" THEN 1
    ELSE IF operand[1] = "@" THEN 2
    ELSE 3

\* FindOpcode(opcode, operand); opcode is the two hex digits of OPTAB, or
\* "None" when Format3 was handed a mnemonic OPTAB does not hold
FindOpcode(opcode, operand) ==
    IF ~CanInt16(opcode) THEN Raised
    ELSE IF opcode = <<"4", "C">> THEN Zfill(Hex2(Int16(opcode) + 3), 2)
    ELSE IF Len(operand) = 0 THEN Raised
    ELSE Zfill(Hex2(Int16(opcode) + NIbits(operand)), 2)

\* the test both XBPE and Format3 make: the displacement is not in range for
\* PC-relative addressing
OutOfPCRange(curraddr, labeladdr) ==
    \/ (Int16(curraddr) + 3) - Int16(labeladdr) > 2047
    \/ (Int16(curraddr) + 3) - Int16(labeladdr) < -2048

XBPE(opcode, operand, curraddr, symtab) ==
    IF operand = <<>> THEN <<"0">>
    ELSE LET indexed == operand[Len(operand)] = "X"
             midbits1 == IF indexed THEN 8 ELSE 0
             operand1 == IF indexed THEN DropLast(operand, 2) ELSE operand
         IN  IF opcode[1] = "+" THEN Hex2(midbits1 + 1)
             ELSE IF Len(operand1) = 0 THEN Raised
             ELSE LET operand2 == IF operand1[1] = "#" \/ operand1[1] = "@"
                                  THEN DropFirst(operand1, 1) ELSE operand1
                  IN  IF operand2 \in DOMAIN symtab
                      THEN IF ~CanInt16(curraddr) \/ ~CanInt16(symtab[operand2]) THEN Raised
                           ELSE IF OutOfPCRange(curraddr, symtab[operand2])
                                THEN Hex2(midbits1 + 4)
                                ELSE Hex2(midbits1 + 2)
                      ELSE Hex2(midbits1)

\* a line printed to the console: a text and, for line 649, the mnemonic
Line(text, arg) == [text |-> text, arg |-> arg]

\* what an encoder returns: the string built and the error line printed on
\* the way (if any), or an exception
Built(str, msg) == [raised |-> FALSE, str |-> str, msg |-> msg]
Exception == [raised |-> TRUE, str |-> <<>>, msg |-> <<>>]

\* the address field Format4 appends after the opcode and the flags
Format4Address(operand, symtab) ==
    IF Len(operand) = 0 THEN Exception
    ELSE IF operand[1] = "#" \/ operand[1] = "@"
    THEN LET newstr == DropFirst(operand, 1)
         IN  IF newstr \in DOMAIN symtab THEN Built(symtab[newstr], <<>>)
             ELSE IF CanInt10(newstr) THEN Built(Zfill(Hex2(Int10(newstr)), 5), <<>>)
             ELSE Exception
    ELSE IF operand[Len(operand)] = "X"
    THEN IF DropLast(operand, 2) \in DOMAIN symtab
         THEN Built(symtab[DropLast(operand, 2)], <<>>)
         ELSE Built(<<>>, <<Line("Error: Operand not a label.", <<>>)>>)
    ELSE IF operand \in DOMAIN symtab
    THEN Built(symtab[operand], <<>>)
    ELSE Built(<<>>, <<Line("Error: Incorrect format 4 instruction", <<>>)>>)

Format4(opcode, operand, curraddr, symtab) ==
    LET code == Get(OPTAB, DropFirst(opcode, 1))
        op == FindOpcode(code, operand)
        xbpe == XBPE(opcode, operand, curraddr, symtab)
    IN  IF op = Raised \/ xbpe = Raised THEN Exception
        ELSE IF opcode = <<"R", "S", "U", "B">> THEN Built(op \o xbpe \o <<"0", "0", "0", "0">>, <<>>)
        ELSE LET addr == Format4Address(operand, symtab)
             IN  IF addr.raised THEN Exception
                 ELSE Built(op \o xbpe \o addr.str, addr.msg)

TwoComp(disp) ==
    LET bin_disp == Zfill(DropFirst(PyBin(disp), 3), 12)
        newbin == [k \in 1..Len(bin_disp) |-> IF bin_disp[k] = "0" THEN "1" ELSE "0"]
    IN  Zfill(Hex2(Int2(newbin) + 1), 3)

\* the displacement field Format3 appends for a label at labeladdr, in the
\* immediate/indirect branch (lines 346-370)
Format3ImmediateDisp(labeladdr, curraddr, baseaddr) ==
    LET nextaddr == Int16(curraddr) + 3
        disp == Int16(labeladdr) - nextaddr
    IN  IF ~CanInt16(labeladdr) THEN Raised
        ELSE IF OutOfPCRange(curraddr, labeladdr)
        THEN IF ~CanInt16(baseaddr) THEN Raised
             ELSE Zfill(PyStrInt(Int16(labeladdr) - Int16(baseaddr)), 3)
        ELSE IF disp < 0 THEN Zfill(TwoComp(disp), 3)
        ELSE Zfill(Hex2(disp), 3)

\* the displacement field Format3 appends in the simple-addressing branch
\* (lines 386-417); labeladdr is SYMTAB.get(operand)
Format3SimpleDisp(labeladdr, curraddr, baseaddr) ==
    LET nextaddr == Int16(curraddr) + 3
    IN  IF ~CanInt16(labeladdr) THEN Raised
        ELSE IF OutOfPCRange(curraddr, labeladdr)
        THEN IF ~CanInt16(baseaddr) THEN Raised
             ELSE Zfill(PyStrInt(Int16(labeladdr) - Int16(baseaddr)), 3)
        ELSE IF Int16(labeladdr) > nextaddr
        THEN Zfill(Hex2(Int16(labeladdr) - nextaddr), 3)
        ELSE TwoComp(Int16(labeladdr) - nextaddr)

Format3(opcode, operand, curraddr, baseaddr, symtab) ==
    IF opcode = <<"S", "T", "A", "R", "T">> \/ opcode = <<"E", "N", "D">> THEN <<>>
    ELSE LET codeval == PyStr(Get(OPTAB, opcode))
             op == FindOpcode(codeval, operand)
             xbpe == XBPE(opcode, operand, curraddr, symtab)
         IN  IF op = Raised \/ xbpe = Raised THEN Raised
             ELSE IF opcode = <<"R", "S", "U", "B">> THEN op \o xbpe \o <<"0", "0", "0">>
             ELSE IF operand[1] = "#" \/ operand[1] = "@"
             THEN LET name == DropFirst(operand, 1)
                      field == IF name \in DOMAIN symtab
                               THEN Format3ImmediateDisp(symtab[name], curraddr, baseaddr)
                               ELSE IF CanInt10(name) THEN Zfill(Hex2(Int10(name)), 3)
                               ELSE Raised
                  IN  IF field = Raised THEN Raised ELSE op \o xbpe \o field
             ELSE LET name == IF operand[Len(operand)] = "X" THEN DropLast(operand, 2) ELSE operand
                      field == Format3SimpleDisp(Get(symtab, name), curraddr, baseaddr)
                  IN  IF field = Raised THEN Raised ELSE op \o xbpe \o field

\* the two halves of a "r1,r2" operand; Comma is 0 when there is no ','
Comma(operand) ==
    IF \E k \in 1..Len(operand) : operand[k] = ","
    THEN CHOOSE k \in 1..Len(operand) : operand[k] = "," /\ \A j \in 1..(k - 1) : operand[j] /= ","
    ELSE 0

\* Format2(opcode, operand): [str, msg] or an exception
Format2(opcode, operand) ==
    LET code == FORM2[opcode]
        k == Comma(operand)
        reg1 == SubSeq(operand, 1, k - 1)
        rest == DropFirst(operand, k)
        reg2 == IF Comma(rest) = 0 THEN rest ELSE SubSeq(rest, 1, Comma(rest) - 1)
    IN  IF k > 0
        THEN IF reg1 \in DOMAIN REGS /\ reg2 \in DOMAIN REGS
             THEN Built(code \o REGS[reg1] \o REGS[reg2], <<>>)
             ELSE IF opcode = <<"S", "H", "I", "F", "T", "L">> \/ opcode = <<"S", "H", "I", "F", "T", "R">>
             THEN IF reg1 \notin DOMAIN REGS \/ ~CanInt10(reg2) THEN Exception
                  ELSE Built(code \o REGS[reg1] \o Hex2(Int10(reg2) - 1), <<>>)
             ELSE Built(code, <<Line("1", <<>>)>>)
        ELSE IF operand \in DOMAIN REGS THEN Built(code \o REGS[operand] \o <<"0">>, <<>>)
        ELSE IF CanInt10(operand) THEN Built(code \o Hex2(Int10(operand)) \o <<"0">>, <<>>)
        ELSE Exception

FindForm(opcode) == IF opcode[1] = "+" THEN 4 ELSE 3

-----------------------------------------------------------------------------
(* Pass 2: one iteration of SecondPass's loop                              *)

\* hex(ord(char))[2:] of each character, concatenated (lines 599-601)
RECURSIVE CharCodes(_)
CharCodes(s) == IF s = <<>> THEN <<>> ELSE Hex2(Ord(Head(s))) \o CharCodes(Tail(s))

\* the BYTE branch (lines 584-610); hex() of a str raises TypeError
ByteForm(operand) ==
    IF Len(operand) = 0 THEN Raised
    ELSE IF operand[1] = "X" THEN Zfill(DropLast(DropFirst(operand, 2), 1), 2)
    ELSE IF operand[1] = "C" THEN CharCodes(DropLast(DropFirst(operand, 2), 1))
    ELSE Raised

\* the string instrform that the dispatch of lines 553-649 builds for the row
\* elem, with the error line printed and the new basevar; skip is the
\* "continue" of a comment, START or END row
Dispatch(elem, base, symtab) ==
    LET code == elem[3]
        operand == elem[4]
        Form(r) == [raised |-> r.raised, skip |-> FALSE, instrform |-> r.str,
                    msg |-> r.msg, basevar |-> base]
        Str(s) == IF s = Raised THEN Form(Exception) ELSE Form(Built(s, <<>>))
    IN  IF code = <<"R", "E", "S", "B">>
        THEN IF CanInt10(operand) THEN Str(Zeros(Int10(operand) * 2)) ELSE Str(Raised)
        ELSE IF code = <<"R", "E", "S", "W">>
        THEN IF CanInt10(operand) THEN Str(Zeros(Int10(operand) * 6)) ELSE Str(Raised)
        ELSE IF elem[2][1] = "." \/ code = <<"S", "T", "A", "R", "T">> \/ code = <<"E", "N", "D">>
        THEN [Str(<<>>) EXCEPT !.skip = TRUE]
        ELSE IF code = <<"B", "Y", "T", "E">> THEN Str(ByteForm(operand))
        ELSE IF code = <<"W", "O", "R", "D">>
        THEN IF CanInt10(operand) THEN Str(Zfill(Hex2(Int10(operand)), 6)) ELSE Str(Raised)
        ELSE IF code = <<"B", "A", "S", "E">> THEN [Str(<<>>) EXCEPT !.basevar = Get(symtab, operand)]
        ELSE IF code \in DOMAIN FORM1 THEN Str(FORM1[code])
        ELSE IF code \in DOMAIN FORM2 THEN Form(Format2(code, operand))
        ELSE IF code \in DOMAIN OPTAB \/ DropFirst(code, 1) \in DOMAIN OPTAB
        THEN IF FindForm(code) = 4 THEN Form(Format4(code, operand, elem[1], symtab))
             ELSE Str(Format3(code, operand, elem[1], base, symtab))
        ELSE Form(Built(<<>>, <<Line("Error: Instruction not valid - ", code)>>))

\* whether line 655 raises: a two-character slice of instrform that is no
\* hexadecimal number
WriteRaises(instrform) ==
    \E k \in 1..Len(instrform) : ~IsHexChar(instrform[k])

\* writebytes (lines 655-656): one byte per two-character slice of instrform,
\* the last slice being one character when the length is odd
WriteBytes(instrform) ==
    [k \in 1..((Len(instrform) + 1) \div 2) |->
        Int16(SubSeq(instrform, 2 * k - 1, IF 2 * k <= Len(instrform) THEN 2 * k ELSE Len(instrform)))]

-----------------------------------------------------------------------------
(* The input files                                                         *)

\* the three columns FindColumn returns for a line
Cols(label, code, operand) == <<label, code, operand>>

\* the longest program body drawn from Pool, and the largest RESB gap
MaxLen == 3
MaxGap == 2048

StartLine == Cols(NoLabel, <<"S", "T", "A", "R", "T">>, <<"1", "0", "0", "0">>)

Pool == {
    Cols(<<"F", "I", "R", "S", "T">>, <<"L", "D", "A">>, <<"A", "L", "P", "H", "A">>),
    Cols(<<"A", "L", "P", "H", "A">>, <<"W", "O", "R", "D">>, <<"5">>),
    Cols(NoLabel, <<"E", "N", "D">>, <<"F", "I", "R", "S", "T">>),
    Cols(NoLabel, <<"R", "S", "U", "B">>, <<>>),
    Cols(NoLabel, <<"+", "R", "S", "U", "B">>, <<>>),
    Cols(NoLabel, <<"R", "S", "U", "B">>, <<"A", "L", "P", "H", "A">>),
    Cols(NoLabel, <<"L", "D", "A">>, <<"N", "O", "P", "E">>),
    Cols(NoLabel, <<"+", "L", "D", "A">>, <<"N", "O", "P", "E">>),
    Cols(NoLabel, <<"F", "O", "O">>, <<"A", "L", "P", "H", "A">>),
    Cols(NoLabel, <<"X", "L", "D", "A">>, <<"A", "L", "P", "H", "A">>),
    Cols(NoLabel, <<"B", "A", "S", "E">>, <<"A", "L", "P", "H", "A">>),
    Cols(NoLabel, <<"B", "Y", "T", "E">>, <<"X", "'", "F", "'">>) }

\* START 1000 followed by up to MaxLen lines of Pool, in any order
PoolPrograms == { <<StartLine>> \o body : body \in UNION { [1..n -> Pool] : n \in 0..MaxLen } }

\* programs that exercise the remaining branches of both passes
Scenarios == {
    << StartLine, Cols(NoLabel, <<"F", "I", "X">>, <<>>), Cols(NoLabel, <<"C", "L", "E", "A", "R">>, <<"A">>),
       Cols(NoLabel, <<"A", "D", "D", "R">>, <<"A", ",", "S">>), Cols(NoLabel, <<"S", "H", "I", "F", "T", "L">>, <<"A", ",", "4">>),
       Cols(NoLabel, <<"S", "V", "C">>, <<"3">>), Cols(NoLabel, <<"A", "D", "D", "R">>, <<"A", ",", "Q">>),
       Cols(NoLabel, <<"E", "N", "D">>, <<>>) >>,
    << StartLine, Cols(<<"B", "U", "F">>, <<"R", "E", "S", "W">>, <<"2">>), Cols(NoLabel, <<"+", "L", "D", "A">>, <<"B", "U", "F">>),
       Cols(NoLabel, <<"L", "D", "A">>, <<"#", "3">>), Cols(NoLabel, <<"L", "D", "A">>, <<"@", "B", "U", "F">>),
       Cols(NoLabel, <<"L", "D", "A">>, <<"B", "U", "F", ",", "X">>), Cols(NoLabel, <<"+", "L", "D", "A">>, <<"#", "4", "0", "9", "6">>),
       Cols(NoLabel, <<"+", "S", "T", "A">>, <<"B", "U", "F", ",", "X">>), Cols(NoLabel, <<"L", "D", "A">>, <<"#", "B", "U", "F">>),
       Cols(NoLabel, <<"+", "L", "D", "A">>, <<"N", "O", "P", "E", ",", "X">>) >>,
    << StartLine, Cols(<<"E", "O", "F">>, <<"B", "Y", "T", "E">>, <<"C", "'", "E", "O", "F", "'">>), Cols(NoLabel, <<"B", "Y", "T", "E">>, <<"X", "'", "F", "1", "'">>),
       Cols(NoLabel, <<"L", "D", "A">>, <<"#", "4", "0", "9", "6">>), Cols(NoLabel, <<"B", "Y", "T", "E">>, <<"5">>) >>,
    << Cols(<<"P", "R", "O", "G">>, <<"S", "T", "A", "R", "T">>, <<"0">>), Cols(<<".">>, <<"c", "o", "m", "m", "e", "n", "t">>, <<>>),
       Cols(<<"M", "A", "X">>, <<"W", "O", "R", "D">>, <<"1">>), Cols(NoLabel, <<"L", "D", "A">>, <<"M", "A", "X">>) >>,
    << StartLine, Cols(NoLabel, <<"R", "S", "U", "B">>, <<"N", "O", "P", "E">>), Cols(NoLabel, <<"R", "S", "U", "B">>, <<"E", "X">>) >>,
    << StartLine, Cols(<<"A", "L", "P", "H", "A">>, <<"W", "O", "R", "D">>, <<"5">>), Cols(NoLabel, <<"+", "R", "S", "U", "B">>, <<"A", "L", "P", "H", "A">>) >>,
    << StartLine, Cols(NoLabel, <<"R", "E", "S", "B">>, <<"x">>) >>,
    << Cols(<<"P", "R", "O", "G">>, <<"S", "T", "A", "R", "T">>, <<"0">>), Cols(<<"M", "A", "X">>, <<"W", "O", "R", "D">>, <<"1">>), Cols(<<"M">>, <<"W", "O", "R", "D">>, <<"2">>),
       Cols(NoLabel, <<"L", "D", "A">>, <<"M", "A", "X">>), Cols(NoLabel, <<"+", "L", "D", "A">>, <<"M", "A", "X">>),
       Cols(NoLabel, <<"L", "D", "A">>, <<"#", "M", "A", "X">>), Cols(NoLabel, <<"L", "D", "A">>, <<"M", "A", "X", ",", "X">>),
       Cols(NoLabel, <<"+", "L", "D", "A">>, <<"M", "A", "X", ",", "X">>) >>,
    << Cols(<<"P", "R", "O", "G">>, <<"S", "T", "A", "R", "T">>, <<"0">>), Cols(<<"M", "A", "X">>, <<"W", "O", "R", "D">>, <<"1">>), Cols(NoLabel, <<"+", "L", "D", "A">>, <<"M", "A", "X">>) >> }

\* a reference to ALPHA across a RESB gap, forwards and backwards
Gaps == (0..2) \cup ((MaxGap - 9)..MaxGap)

GapPrograms ==
    { << Cols(NoLabel, <<"S", "T", "A", "R", "T">>, <<"0">>), Cols(NoLabel, <<"L", "D", "A">>, <<"A", "L", "P", "H", "A">>),
         Cols(NoLabel, <<"R", "E", "S", "B">>, PyStrInt(n)), Cols(<<"A", "L", "P", "H", "A">>, <<"W", "O", "R", "D">>, <<"5">>) >> : n \in Gaps }
    \cup
    { << Cols(NoLabel, <<"S", "T", "A", "R", "T">>, <<"0">>), Cols(<<"A", "L", "P", "H", "A">>, <<"W", "O", "R", "D">>, <<"5">>),
         Cols(NoLabel, <<"R", "E", "S", "B">>, PyStrInt(n)), Cols(NoLabel, <<"L", "D", "A">>, <<"A", "L", "P", "H", "A">>) >> : n \in Gaps }

\* a reference, from beyond the PC-relative range, to a label T that lies d
\* bytes after the label B named by the BASE line
BaseOffsets == {0, 9, 10, 255, 256, 4095}

BasePrograms ==
    { << Cols(<<"P", "R", "O", "G">>, <<"S", "T", "A", "R", "T">>, <<"0">>), Cols(NoLabel, <<"B", "A", "S", "E">>, <<"B">>),
         Cols(<<"B">>, <<"R", "E", "S", "B">>, PyStrInt(d)), Cols(<<"T">>, <<"W", "O", "R", "D">>, <<"5">>),
         Cols(NoLabel, <<"R", "E", "S", "B">>, PyStrInt(MaxGap)), Cols(NoLabel, <<"L", "D", "A">>, <<"T">>),
         Cols(NoLabel, <<"L", "D", "A">>, <<"#", "T">>), Cols(NoLabel, <<"L", "D", "A">>, <<"T", ",", "X">>) >> : d \in BaseOffsets }

Programs == PoolPrograms \cup Scenarios \cup GapPrograms \cup BasePrograms

-----------------------------------------------------------------------------
(* main(): FirstPass over the whole file, then SecondPass over its result  *)

EmptyTable == [key \in {} |-> <<>>]

Init ==
    /\ src \in Programs
    /\ pc = "pass1"
    /\ line = 1
    /\ parseinfo = <<>>
    /\ LOCCTR = 0
    /\ SYMTAB = EmptyTable
    /\ lengths = <<>>
    /\ elemIx = 1
    /\ basevar = <<"0">>
    /\ target = <<>>
    /\ written = <<>>
    /\ printed = <<>>

\* a FirstPass whose return sits inside the loop: it ends after one line
EndOfFileAfterFirstLine == line > 1

\* the "for line in inputFile" loop of FirstPass has read every line
EndOfFile == line > Len(src)

\* one iteration of FirstPass's loop (lines 178-191)
FirstPassStep ==
    /\ pc = "pass1"
    /\ ~EndOfFile
    /\ LET r == FindOffset(src[line], LOCCTR)
       IN  /\ parseinfo' = Append(parseinfo, r.row)
           /\ IF r.raised
              THEN /\ pc' = "crashed"
                   /\ UNCHANGED <<line, LOCCTR, SYMTAB, lengths>>
              ELSE /\ pc' = pc
                   /\ line' = line + 1
                   /\ LOCCTR' = r.LOCCTR
                   /\ lengths' = Append(lengths, r.added)
                   /\ SYMTAB' = IF r.row[2] = <<".">> THEN SYMTAB ELSE FillSymTab(r.row, SYMTAB)
    /\ UNCHANGED <<src, elemIx, basevar, target, written, printed>>

\* FirstPass returns parseinfo and main() calls SecondPass (lines 193-200, 689-692)
FirstPassReturn ==
    /\ pc = "pass1"
    /\ EndOfFile
    /\ pc' = "pass2"
    /\ UNCHANGED <<src, line, parseinfo, LOCCTR, SYMTAB, lengths, elemIx, basevar, target, written, printed>>

\* what one iteration of SecondPass's loop does to its locals, the rows and
\* the output file (lines 544-672)
SecondPassIteration ==
    /\ pc = "pass2"
    /\ elemIx <= Len(parseinfo)
    /\ LET d == Dispatch(parseinfo[elemIx], basevar, SYMTAB)
       IN  IF d.raised
           THEN /\ pc' = "crashed"
                /\ UNCHANGED <<parseinfo, elemIx, basevar, target, written, printed>>
           ELSE IF d.skip
           THEN /\ elemIx' = elemIx + 1
                /\ written' = Append(written, 0)
                /\ UNCHANGED <<pc, parseinfo, basevar, target, printed>>
           ELSE /\ parseinfo' = [parseinfo EXCEPT ![elemIx] = Append(@, d.instrform)]
                /\ printed' = printed \o d.msg
                /\ basevar' = d.basevar
                /\ IF WriteRaises(d.instrform)
                   THEN /\ pc' = "crashed"
                        /\ UNCHANGED <<elemIx, target, written>>
                   ELSE /\ pc' = pc
                        /\ elemIx' = elemIx + 1
                        /\ target' = target \o WriteBytes(d.instrform)
                        /\ written' = Append(written, Len(WriteBytes(d.instrform)))

\* a SecondPass that keeps the location counter in step with the bytes it writes
SecondPassStepCounting ==
    /\ SecondPassIteration
    /\ LOCCTR' = LOCCTR + (Len(target') - Len(target))
    /\ UNCHANGED <<src, line, SYMTAB, lengths>>

\* one iteration of SecondPass's loop: SecondPass declares no global and
\* assigns neither LOCCTR nor an entry of SYMTAB
SecondPassStep ==
    /\ SecondPassIteration
    /\ UNCHANGED <<src, line, LOCCTR, SYMTAB, lengths>>

\* SecondPass returns and main() ends (lines 674, 694)
SecondPassReturn ==
    /\ pc = "pass2"
    /\ elemIx > Len(parseinfo)
    /\ pc' = "done"
    /\ UNCHANGED <<src, line, parseinfo, LOCCTR, SYMTAB, lengths, elemIx, basevar, target, written, printed>>

Next ==
    \/ FirstPassStep
    \/ FirstPassReturn
    \/ SecondPassStep
    \/ SecondPassReturn

Spec == Init /\ [][Next]_vars

-----------------------------------------------------------------------------
(* Vocabulary of the properties                                            *)

RECURSIVE Sum(_)
Sum(s) == IF s = <<>> THEN 0 ELSE Head(s) + Sum(Tail(s))

\* the operand of the START line every input file begins with
StartAddress == Int16(src[1][3])

\* FirstPass has run over the whole file
Pass1Finished == line > Len(src) /\ Len(parseinfo) = Len(src)

\* SecondPass has begun
Pass2Begun == pc = "pass2" \/ pc = "done" \/ elemIx > 1 \/ written /= <<>>

\* SecondPass raised an exception on row k
Pass2CrashedAt(k) == pc = "crashed" /\ Pass1Finished /\ elemIx = k

\* SecondPass has gone through row k, and has appended its instrform to it
Processed(k) == k <= Len(written)
Encoded(k) == Processed(k) /\ Len(parseinfo[k]) = 5
Instrform(k) == parseinfo[k][5]

IsComment(row) == row[2][1] = "."
Directives == { <<"S", "T", "A", "R", "T">>, <<"E", "N", "D">>, <<"B", "A", "S", "E">>, <<"B", "Y", "T", "E">>, <<"W", "O", "R", "D">>, <<"R", "E", "S", "B">>, <<"R", "E", "S", "W">> }
Extended(code) == Len(code) > 0 /\ code[1] = "+"
InTables(code) == code \in DOMAIN FORM1 \/ code \in DOMAIN FORM2 \/ code \in DOMAIN OPTAB
IsFormat3(code) == code \in DOMAIN OPTAB /\ code \notin DOMAIN FORM1 /\ code \notin DOMAIN FORM2
IsFormat4(code) == Extended(code) /\ DropFirst(code, 1) \in DOMAIN OPTAB

\* the operand without its '#' or '@' prefix and its ',X' suffix
EndsWithCommaX(s) == Len(s) >= 2 /\ s[Len(s) - 1] = "," /\ s[Len(s)] = "X"
Unprefixed(s) == IF Len(s) > 0 /\ (s[1] = "#" \/ s[1] = "@") THEN DropFirst(s, 1) ELSE s
Stripped(s) == LET u == Unprefixed(s) IN IF EndsWithCommaX(u) THEN SubSeq(u, 1, Len(u) - 2) ELSE u

\* two hexadecimal strings with the same digits, whatever the case of a-f
SameHex(s, t) ==
    /\ Len(s) = Len(t)
    /\ \A k \in 1..Len(s) : IsHexChar(s[k]) /\ IsHexChar(t[k]) /\ HexCharVal(s[k]) = HexCharVal(t[k])

\* the parts of a format-3 instrform: two opcode digits, the x/b/p/e digit,
\* then the displacement field
Flags(form) == HexCharVal(form[3])
PBit(form) == (Flags(form) \div 2) % 2 = 1
BBit(form) == (Flags(form) \div 4) % 2 = 1
Field(form) == DropFirst(form, 3)

\* a 12-bit field read as a two's-complement number
Decode12(v) == IF v >= 2048 THEN v - 4096 ELSE v

\* row k is a format-3 instruction other than RSUB whose operand is a label
\* of the symbol table; Disp(k) is its displacement from the next instruction
LabelUse(k) ==
    /\ ~IsComment(parseinfo[k])
    /\ IsFormat3(parseinfo[k][3])
    /\ parseinfo[k][3] /= <<"R", "S", "U", "B">>
    /\ parseinfo[k][4] \in DOMAIN SYMTAB
    /\ CanInt16(SYMTAB[parseinfo[k][4]])
Disp(k) == Int16(SYMTAB[parseinfo[k][4]]) - (Int16(parseinfo[k][1]) + 3)

-----------------------------------------------------------------------------
(* The properties                                                          *)

\* C1: when both passes have run to the last record (and, as for the valid
\* programs the property is about, no failure was printed), the sum of the
\* amounts FindOffset added to LOCCTR, the final LOCCTR minus the START
\* operand, and the number of bytes written to the object file are all equal.
C1_LengthsCounterAndStreamAgree ==
    (pc = "done" /\ printed = <<>>) =>
        /\ Sum(lengths) = LOCCTR - StartAddress
        /\ LOCCTR - StartAddress = Len(target)

\* C2: for every record SecondPass encodes (a format 1, 2, 3 or 4
\* instruction, BYTE, WORD, RESB, RESW) the number of bytes written for it
\* equals the amount FindOffset added to LOCCTR for it.
C2_PayloadFillsReservedSpace ==
    \A k \in 1..Len(parseinfo) :
        ( /\ Encoded(k)
          /\ ~IsComment(parseinfo[k])
          /\ LET code == parseinfo[k][3]
             IN  \/ InTables(code) \/ IsFormat4(code)
                 \/ code \in { <<"B", "Y", "T", "E">>, <<"W", "O", "R", "D">>, <<"R", "E", "S", "B">>, <<"R", "E", "S", "W">> } )
        => written[k] = lengths[k]

\* C3: once SecondPass has begun, FirstPass has read every line of the file,
\* and every label that a line declares is in SYMTAB at the offset of the
\* (last) line that declares it, so a row that uses the label as its operand
\* finds that address whether it stands before or after the declaring line.
C3_Pass1CompleteBeforePass2 ==
    Pass2Begun =>
        /\ Pass1Finished
        /\ \A d \in 1..Len(parseinfo) :
            LET label == parseinfo[d][2]
            IN  ( /\ label /= NoLabel
                  /\ ~IsComment(parseinfo[d])
                  /\ \A later \in (d + 1)..Len(parseinfo) : parseinfo[later][2] /= label )
                => \A u \in 1..Len(parseinfo) :
                       parseinfo[u][4] = label => Get(SYMTAB, parseinfo[u][4]) = parseinfo[d][1]

\* a forward reference has been encoded: the using row stands before the
\* declaring row, and SecondPass has appended its instrform
C3_ForwardReferenceEncoded ==
    \E u \in 1..Len(parseinfo) : \E d \in (u + 1)..Len(parseinfo) :
        /\ Encoded(u)
        /\ IsFormat3(parseinfo[u][3])
        /\ parseinfo[d][2] = parseinfo[u][4]
        /\ parseinfo[d][2] \in DOMAIN SYMTAB

\* C4: no step of SecondPass changes LOCCTR or SYMTAB; after Pass 2 both
\* hold the values they had when Pass 1 finished.
C4_Pass2LeavesCounterAndTable ==
    [][pc = "pass2" => (LOCCTR' = LOCCTR /\ SYMTAB' = SYMTAB)]_vars

\* SecondPass has run to the end of a program with a BASE line, a format-3
\* instruction and a format-4 instruction, and has written bytes
C4_Pass2DoneWithBaseAndEncoders ==
    /\ pc = "done"
    /\ target /= <<>>
    /\ \E k \in 1..Len(parseinfo) : parseinfo[k][3] = <<"B", "A", "S", "E">> /\ Encoded(k)
    /\ \E k \in 1..Len(parseinfo) : IsFormat3(parseinfo[k][3]) /\ Encoded(k)
    /\ \E k \in 1..Len(parseinfo) : IsFormat4(parseinfo[k][3]) /\ Encoded(k)

\* C5: when the operand of a format-3 or format-4 record, stripped of '#',
\* '@' and ',X', is a label that is not in the symbol table, SecondPass prints
\* a failure line, writes no byte for the record, and goes on to the next
\* record instead of stopping.
C5_UndeclaredLabelIsReportedAndSkipped ==
    \A k \in 1..Len(parseinfo) :
        ( /\ Pass1Finished
          /\ ~IsComment(parseinfo[k])
          /\ IsFormat3(parseinfo[k][3]) \/ IsFormat4(parseinfo[k][3])
          /\ parseinfo[k][3] /= <<"R", "S", "U", "B">> /\ parseinfo[k][3] /= <<"+", "R", "S", "U", "B">>
          /\ Stripped(parseinfo[k][4]) /= <<>>
          /\ ~CanInt10(Stripped(parseinfo[k][4]))
          /\ Stripped(parseinfo[k][4]) \notin DOMAIN SYMTAB )
        => /\ ~Pass2CrashedAt(k)
           /\ Processed(k) => (written[k] = 0 /\ printed /= <<>>)

\* C6: when the operation of a record is neither a directive nor, with or
\* without a '+' prefix, a mnemonic of FORM1, FORM2 or OPTAB, SecondPass
\* prints the invalid-instruction line with the mnemonic, writes no byte for
\* the record, and goes on to the next record.
C6_UnknownMnemonicIsReportedAndSkipped ==
    \A k \in 1..Len(parseinfo) :
        LET code == parseinfo[k][3]
        IN  ( /\ Pass1Finished
              /\ ~IsComment(parseinfo[k])
              /\ code \notin Directives
              /\ ~InTables(code)
              /\ ~(Extended(code) /\ InTables(DropFirst(code, 1))) )
            => /\ ~Pass2CrashedAt(k)
               /\ Processed(k) =>
                    /\ written[k] = 0
                    /\ \E n \in 1..Len(printed) :
                           printed[n] = Line("Error: Instruction not valid - ", code)

\* C7: a format-3 instruction whose displacement is exactly 2047 is encoded
\* PC-relative with field 7FF; exactly 2048, base-relative; exactly -2048,
\* PC-relative with field 800.
C7_BoundaryDisplacements ==
    \A k \in 1..Len(parseinfo) :
        (Pass1Finished /\ LabelUse(k)) =>
            /\ ~Pass2CrashedAt(k)
            /\ Encoded(k) =>
                /\ Disp(k) = 2047 =>
                     PBit(Instrform(k)) /\ ~BBit(Instrform(k)) /\ SameHex(Field(Instrform(k)), <<"7", "F", "F">>)
                /\ Disp(k) = 2048 =>
                     BBit(Instrform(k)) /\ ~PBit(Instrform(k))
                /\ Disp(k) = -2048 =>
                     PBit(Instrform(k)) /\ ~BBit(Instrform(k)) /\ SameHex(Field(Instrform(k)), <<"8", "0", "0">>)

\* C8: for every displacement d in [-2048, 2047], the field of a format-3
\* instruction that Format3 encoded PC-relative is exactly 3 hex digits and,
\* read as a 12-bit two's-complement number, is d.
C8_DisplacementRoundTrip ==
    \A k \in 1..Len(parseinfo) :
        ( /\ Pass1Finished /\ LabelUse(k) /\ Disp(k) >= -2048 /\ Disp(k) <= 2047
          /\ Encoded(k) /\ PBit(Instrform(k)) )
        =>      /\ Len(Field(Instrform(k))) = 3
                /\ CanInt16(Field(Instrform(k)))
                /\ Decode12(Int16(Field(Instrform(k)))) = Disp(k)

\* C9: an RSUB record is encoded as 4C0000 and a +RSUB record as 4C000000,
\* whatever its operand field holds: the opcode byte is 4C, where only the
\* two low bits (n and i) may be set, and every digit after it is 0.
C9_RsubIgnoresOperand ==
    \A k \in 1..Len(parseinfo) :
        LET code == parseinfo[k][3]
            digits == IF code = <<"R", "S", "U", "B">> THEN 6 ELSE 8
        IN  (Pass1Finished /\ ~IsComment(parseinfo[k]) /\ (code = <<"R", "S", "U", "B">> \/ code = <<"+", "R", "S", "U", "B">>)) =>
                /\ ~Pass2CrashedAt(k)
                /\ Processed(k) =>
                     /\ Encoded(k)
                     /\ Len(Instrform(k)) = digits
                     /\ CanInt16(Instrform(k))
                     /\ Int16(SubSeq(Instrform(k), 1, 2)) \div 4 = Int16(<<"4", "C">>) \div 4
                     /\ Int16(DropFirst(Instrform(k), 2)) = 0

\* C10: for START 1000 / FIRST LDA ALPHA / ALPHA WORD 5, after both passes
\* ALPHA is in the symbol table at 1006, the LDA record is opcode 00 plus the
\* n and i bits, the p flag, and displacement field 003, and the WORD record
\* is 000005.
C10_ThreeRecordScenario ==
    src = << StartLine, Cols(<<"F", "I", "R", "S", "T">>, <<"L", "D", "A">>, <<"A", "L", "P", "H", "A">>), Cols(<<"A", "L", "P", "H", "A">>, <<"W", "O", "R", "D">>, <<"5">>) >>
    => /\ pc /= "crashed"
       /\ pc = "done" =>
            /\ <<"A", "L", "P", "H", "A">> \in DOMAIN SYMTAB
            /\ Int16(SYMTAB[<<"A", "L", "P", "H", "A">>]) = Int16(<<"1", "0", "0", "6">>)
            /\ Encoded(2) /\ Encoded(3)
            /\ SameHex(SubSeq(Instrform(2), 1, 2), <<"0", "3">>)
            /\ PBit(Instrform(2)) /\ ~BBit(Instrform(2))
            /\ SameHex(Field(Instrform(2)), <<"0", "0", "3">>)
            /\ SameHex(Instrform(3), <<"0", "0", "0", "0", "0", "5">>)

\* the label a format-3 or format-4 operand names, and how far it lies after
\* the base register value SecondPass holds
Target(k) == Int16(SYMTAB[Stripped(parseinfo[k][4])])
BaseOffset(k) == Target(k) - Int16(basevar)

\* C11: when the displacement of a format-3 instruction is out of the
\* PC-relative range, so that Format3 encodes it base-relative, and the
\* target lies 0 to 4095 bytes after the base register value, the
\* displacement field is target - base written as an unsigned hexadecimal
\* number of exactly 3 digits. (Row k is the row SecondPass encoded last, so
\* basevar is the value Format3 was given for it.)
C11_BaseRelativeFieldIsHex ==
    \A k \in 1..Len(parseinfo) :
        ( /\ Pass1Finished /\ k = Len(written) /\ Encoded(k)
          /\ ~IsComment(parseinfo[k])
          /\ IsFormat3(parseinfo[k][3]) /\ parseinfo[k][3] /= <<"R", "S", "U", "B">>
          /\ Stripped(parseinfo[k][4]) \in DOMAIN SYMTAB
          /\ CanInt16(basevar)
          /\ (Target(k) - (Int16(parseinfo[k][1]) + 3) < -2048 \/ Target(k) - (Int16(parseinfo[k][1]) + 3) > 2047)
          /\ BBit(Instrform(k))
          /\ BaseOffset(k) >= 0 /\ BaseOffset(k) <= 4095 )
        => SameHex(Field(Instrform(k)), Zfill(Hex2(BaseOffset(k)), 3))

\* the x bit of a format-3 or format-4 instrform
XBit(form) == Flags(form) \div 8 = 1

\* C12: for every format-3 or format-4 instruction whose operand names a
\* label of the symbol table, the x bit is set if and only if the operand
\* ends with ',X', and the label is looked up with those two characters
\* removed in that case and unchanged otherwise (a label that ends in X
\* included): the record is encoded, a format-4 address field is the
\* label's address, and a PC-relative format-3 field is the label's
\* displacement from the next instruction, modulo 2^12.
C12_IndexedOnlyWithCommaX ==
    \A k \in 1..Len(parseinfo) :
        LET code == parseinfo[k][3]
            operand == parseinfo[k][4]
        IN  ( /\ Pass1Finished
              /\ ~IsComment(parseinfo[k])
              /\ IsFormat3(code) \/ IsFormat4(code)
              /\ code /= <<"R", "S", "U", "B">> /\ code /= <<"+", "R", "S", "U", "B">>
              /\ Stripped(operand) \in DOMAIN SYMTAB )
            => /\ ~Pass2CrashedAt(k)
               /\ Processed(k) =>
                    /\ Encoded(k)
                    /\ XBit(Instrform(k)) <=> EndsWithCommaX(operand)
                    /\ IsFormat4(code) => SameHex(Field(Instrform(k)), SYMTAB[Stripped(operand)])
                    /\ (IsFormat3(code) /\ PBit(Instrform(k))) =>
                         /\ CanInt16(Field(Instrform(k)))
                         /\ Int16(Field(Instrform(k))) % 4096 = (Target(k) - (Int16(parseinfo[k][1]) + 3)) % 4096

=============================================================================
